---- MODULE Spec2Model ----
(***************************************************************************)
(* Model of the reconnaissance pipeline of src/main.py (the basic variant) *)
(* and src/old-main.py (the extended variant): format_ip,                   *)
(* extract_and_format_ips, reverse_dns_lookup, fetch_readme_content,        *)
(* version_key and main.                                                    *)
(*                                                                          *)
(* Strings are sequences of one-character strings (a fixed literal such as  *)
(* "Stable tag: " is one element).  A Python int is unbounded: it is a sign *)
(* and a big-endian sequence of base-256 digits without leading zeros.      *)
(***************************************************************************)
EXTENDS Integers, Sequences, FiniteSets, TLC

VARIABLES
  variant,     \* "format" | "extract" | "basic" | "extended": the code under run
  fileExists,  \* whether input.json can be opened
  lines,       \* the lines of input.json
  pc,          \* position of the run
  pos,         \* number of lines extract_and_format_ips has consumed
  ips,         \* the list ips
  log,         \* what has been printed, in order
  idx,         \* number of iterations of main's loop completed
  results,     \* the list results of main
  output,      \* output.json: [written, doc]
  calls,       \* the arguments socket.getfqdn was called with, in order
  trail,       \* per loop iteration: what the resolver and the probe answered
  arg,         \* the argument format_ip is called with
  ret          \* its outcome

vars == <<variant, fileExists, lines, pc, pos, ips, log, idx, results, output,
          calls, trail, arg, ret>>

-----------------------------------------------------------------------------
(* Bounds *)

MaxBytes == 5
MaxStrLen == 2
MaxLines == 3
MaxMainLines == 3
MaxExtLines == 3

-----------------------------------------------------------------------------
(* Strings *)

Digits == <<"0", "1", "2", "3", "4", "5", "6", "7", "8", "9">>

IsDigitChar(c) == \E i \in 1..10 : Digits[i] = c

DigitVal(c) == (CHOOSE i \in 1..10 : Digits[i] = c) - 1

\* str.isdigit(): non-empty and every character a digit
isdigit(s) == Len(s) > 0 /\ \A i \in 1..Len(s) : IsDigitChar(s[i])

RECURSIVE DecimalValue(_)
\* int(s) for an all-digit s
DecimalValue(s) ==
  IF Len(s) = 0 THEN 0
  ELSE 10 * DecimalValue(SubSeq(s, 1, Len(s) - 1)) + DigitVal(s[Len(s)])

RECURSIVE IntToStr(_)
\* f"{n}" for a non-negative int: decimal, no padding
IntToStr(n) ==
  IF n < 10 THEN <<Digits[n + 1]>>
  ELSE IntToStr(n \div 10) \o <<Digits[(n % 10) + 1]>>

RECURSIVE Split(_, _)
\* s.split(sep) for a one-character sep: always at least one part
Split(s, sep) ==
  IF \A i \in 1..Len(s) : s[i] # sep THEN <<s>>
  ELSE LET i == CHOOSE k \in 1..Len(s) :
                  s[k] = sep /\ \A j \in 1..(k - 1) : s[j] # sep
       IN <<SubSeq(s, 1, i - 1)>> \o Split(SubSeq(s, i + 1, Len(s)), sep)

RECURSIVE SeqsUpTo(_, _)
\* all sequences over S of length at most n
SeqsUpTo(S, n) ==
  IF n = 0 THEN {<<>>}
  ELSE LET shorter == SeqsUpTo(S, n - 1)
       IN shorter \cup {Append(s, x) : s \in {t \in shorter : Len(t) = n - 1}, x \in S}

-----------------------------------------------------------------------------
(* Python ints *)

ShiftOctet1 == 24
ShiftOctet2 == 16
ShiftOctet3 == 8
Mask == 255

\* the width of one digit: the 8-bit field the code masks with 255
Base == Mask + 1

RECURSIVE Normalize(_)
Normalize(mag) ==
  IF Len(mag) > 0 /\ mag[1] = 0 THEN Normalize(Tail(mag)) ELSE mag

RECURSIVE NatToMag(_)
NatToMag(n) ==
  IF n = 0 THEN <<>> ELSE NatToMag(n \div Base) \o <<n % Base>>

PyInt(neg, mag) == [neg |-> neg /\ Normalize(mag) # <<>>, mag |-> Normalize(mag)]

RECURSIVE MagLess(_, _)
\* a < b on normalized magnitudes
MagLess(a, b) ==
  IF Len(a) # Len(b) THEN Len(a) < Len(b)
  ELSE IF Len(a) = 0 THEN FALSE
  ELSE IF a[1] # b[1] THEN a[1] < b[1]
  ELSE MagLess(Tail(a), Tail(b))

\* a <= b on Python ints
IntLeq(a, b) ==
  IF a.neg /\ ~b.neg THEN TRUE
  ELSE IF ~a.neg /\ b.neg THEN FALSE
  ELSE IF a.neg THEN ~MagLess(a.mag, b.mag)
  ELSE ~MagLess(b.mag, a.mag)

\* x >> bits for a non-negative x and bits a multiple of 8
ShiftRight(x, bits) ==
  LET k == bits \div 8
  IN PyInt(FALSE, IF Len(x.mag) <= k THEN <<>> ELSE SubSeq(x.mag, 1, Len(x.mag) - k))

\* x & m for a non-negative x and m = 2^k - 1 <= 255, as a small number
BitAnd(x, m) == IF Len(x.mag) = 0 THEN 0 ELSE x.mag[Len(x.mag)] % (m + 1)

Zero == PyInt(FALSE, <<>>)

\* 4294967295
MaxIPv4 == PyInt(FALSE, <<255, 255, 255, 255>>)

-----------------------------------------------------------------------------
(* JSON values, as json.loads returns them *)

JInt(neg, mag) == [k |-> "int", neg |-> PyInt(neg, mag).neg, mag |-> PyInt(neg, mag).mag, s |-> <<>>]
JBool(b) == [k |-> "bool", neg |-> FALSE, mag |-> IF b THEN <<1>> ELSE <<>>, s |-> <<>>]
\* a float: s is <<"finite">> (neg, mag: the value truncated toward zero), <<"inf">> or <<"nan">>
JFloat(cls, neg, mag) == [k |-> "float", neg |-> PyInt(neg, mag).neg, mag |-> PyInt(neg, mag).mag, s |-> <<cls>>]
JStr(s) == [k |-> "str", neg |-> FALSE, mag |-> <<>>, s |-> s]
JNull == [k |-> "null", neg |-> FALSE, mag |-> <<>>, s |-> <<>>]
JList == [k |-> "list", neg |-> FALSE, mag |-> <<>>, s |-> <<>>]
JDict == [k |-> "dict", neg |-> FALSE, mag |-> <<>>, s |-> <<>>]

\* outcomes of a call
Returned(v) == [tag |-> "return", none |-> FALSE, val |-> v]
ReturnedNone == [tag |-> "return", none |-> TRUE, val |-> <<>>]
Raised(exc) == [tag |-> "raise", none |-> FALSE, val |-> <<exc>>]

\* int(s) for a str: an optional sign, then digits
IntOfStr(s) ==
  LET signed == Len(s) > 0 /\ s[1] \in {"+", "-"}
      body == IF signed THEN Tail(s) ELSE s
  IN IF isdigit(body)
       THEN Returned(PyInt(signed /\ s[1] = "-", NatToMag(DecimalValue(body))))
       ELSE Raised("ValueError")

\* int(v), main.py line 16
IntOf(v) ==
  CASE v.k = "int" -> Returned(PyInt(v.neg, v.mag))
    [] v.k = "bool" -> Returned(PyInt(FALSE, v.mag))
    [] v.k = "float" ->
         IF v.s = <<"finite">> THEN Returned(PyInt(v.neg, v.mag))
         ELSE IF v.s = <<"inf">> THEN Raised("OverflowError")
         ELSE Raised("ValueError")
    [] v.k = "str" -> IntOfStr(v.s)
    [] OTHER -> Raised("TypeError")

-----------------------------------------------------------------------------
(* format_ip *)

\* a plausible slip: the octets taken in little-endian order
OctetsLittleEndian(x) ==
  <<BitAnd(x, Mask), BitAnd(ShiftRight(x, ShiftOctet3), Mask),
    BitAnd(ShiftRight(x, ShiftOctet2), Mask), BitAnd(ShiftRight(x, ShiftOctet1), Mask)>>

\* octet1..octet4 of an in-range ip_int (lines 18-21)
Octets(x) ==
  <<BitAnd(ShiftRight(x, ShiftOctet1), Mask),
    BitAnd(ShiftRight(x, ShiftOctet2), Mask),
    BitAnd(ShiftRight(x, ShiftOctet3), Mask),
    BitAnd(x, Mask)>>

Dotted(o) ==
  IntToStr(o[1]) \o <<".">> \o IntToStr(o[2]) \o <<".">> \o IntToStr(o[3])
    \o <<".">> \o IntToStr(o[4])

format_ip(ip_int) ==
  LET c == IntOf(ip_int)
  IN IF c.tag = "raise"
       THEN IF c.val = <<"ValueError">> THEN ReturnedNone ELSE c
       ELSE IF IntLeq(Zero, c.val) /\ IntLeq(c.val, MaxIPv4)
              THEN Returned(Dotted(Octets(c.val)))
              ELSE ReturnedNone

\* truth value of what format_ip returned (line 48)
Truthy(r) == r.tag = "return" /\ ~r.none /\ Len(r.val) > 0

-----------------------------------------------------------------------------
(* extract_and_format_ips *)

\* One line of input.json: k = "bad" (json.loads raises JSONDecodeError),
\* "obj" (a JSON object, with or without the key ip), "scalar" (a number,
\* null, true: `"ip" in json_object` raises TypeError) or "list" (a list or
\* string that does not hold "ip": the test is False).
BadLine == [k |-> "bad", hasIp |-> FALSE, ip |-> JNull]
ObjLine(v) == [k |-> "obj", hasIp |-> TRUE, ip |-> v]
ObjNoIp == [k |-> "obj", hasIp |-> FALSE, ip |-> JNull]
ScalarLine == [k |-> "scalar", hasIp |-> FALSE, ip |-> JNull]
ListLine == [k |-> "list", hasIp |-> FALSE, ip |-> JNull]

\* the state of the loop: the list ips, what was printed, and the exception
\* leaving the loop body ("none": every handler of lines 52-55 returns to the loop)
LoopState(i, l, e) == [ips |-> i, log |-> l, exc |-> e]

\* a plausible slip: the handler of line 52 missing, JSONDecodeError leaves the function
ProcessLineNoDecodeHandler(st, line) ==
  IF line.k = "bad" THEN LoopState(st.ips, st.log, "JSONDecodeError")
  ELSE IF line.k = "obj" /\ line.hasIp /\ Truthy(format_ip(line.ip))
    THEN LoopState(Append(st.ips, format_ip(line.ip).val), st.log, "none")
    ELSE st

\* a plausible slip: the else of line 50 attached to the test of line 45
ProcessLineReportsMissing(st, line) ==
  IF line.k = "obj" /\ ~line.hasIp
    THEN LoopState(st.ips, Append(st.log, "Invalid IP value"), "none")
  ELSE IF line.k = "obj" /\ Truthy(format_ip(line.ip))
    THEN LoopState(Append(st.ips, format_ip(line.ip).val), st.log, "none")
    ELSE LoopState(st.ips, Append(st.log, "An error occurred"), "none")

\* the body of the for loop, lines 43-55
ProcessLine(st, line) ==
  IF line.k = "bad"
    THEN LoopState(st.ips, Append(st.log, "Skipping invalid JSON line"), "none")
  ELSE IF line.k = "scalar"
    THEN LoopState(st.ips, Append(st.log, "An error occurred"), "none")
  ELSE IF line.k = "list" \/ ~line.hasIp
    THEN st
  ELSE LET formatted_ip == format_ip(line.ip)
       IN IF formatted_ip.tag = "raise"
            THEN LoopState(st.ips, Append(st.log, "An error occurred"), "none")
          ELSE IF Truthy(formatted_ip)
            THEN LoopState(Append(st.ips, formatted_ip.val), st.log, "none")
          ELSE LoopState(st.ips, Append(st.log, "Invalid IP value"), "none")

RECURSIVE ProcessLines(_, _)
\* the for loop of line 42 over the lines ls, from state st
ProcessLines(st, ls) ==
  IF Len(ls) = 0 \/ st.exc # "none" THEN st
  ELSE ProcessLines(ProcessLine(st, Head(ls)), Tail(ls))

\* a plausible slip: the diagnostic of line 57 missing
ExtractSilentOnMissingFile(exists, ls) ==
  IF ~exists THEN LoopState(<<>>, <<>>, "none")
  ELSE ProcessLines(LoopState(<<>>, <<>>, "none"), ls)

\* the whole call: the list returned, what was printed, the exception raised
extract_and_format_ips(exists, ls) ==
  IF ~exists THEN LoopState(<<>>, <<"File not found">>, "none")
  ELSE ProcessLines(LoopState(<<>>, <<>>, "none"), ls)

-----------------------------------------------------------------------------
(* Inputs *)

ByteSamples == {0, 9, 10, 192, 255}
StrChars == {"1", "7", "-", "x"}

IntInputs ==
  {JInt(neg, mag) : neg \in BOOLEAN, mag \in SeqsUpTo(ByteSamples, MaxBytes)}

OtherInputs ==
  {JStr(s) : s \in SeqsUpTo(StrChars, MaxStrLen)}
    \cup {JBool(TRUE), JBool(FALSE), JNull, JList, JDict,
          JFloat("finite", FALSE, <<1>>), JFloat("inf", FALSE, <<>>),
          JFloat("nan", FALSE, <<>>)}

FormatInputs == IntInputs \cup OtherInputs

\* 3232235777 = 192.168.1.1, 167772169 = 10.0.0.9
IpValueSamples ==
  {JInt(FALSE, <<>>), JInt(FALSE, <<192, 168, 1, 1>>), JInt(FALSE, <<255, 255, 255, 255>>),
   JInt(FALSE, <<1, 0, 0, 0, 0>>), JInt(TRUE, <<1>>), JStr(<<"7">>), JStr(<<"x">>), JNull}

LineSamples ==
  {BadLine, ObjNoIp, ScalarLine, ListLine} \cup {ObjLine(v) : v \in IpValueSamples}

NoOutput == [written |-> FALSE, doc |-> <<>>]
NoCall == [tag |-> "none", none |-> FALSE, val |-> <<>>]

-----------------------------------------------------------------------------
(* format_ip applied to one input *)

InitFormat ==
  /\ variant = "format"
  /\ arg \in FormatInputs
  /\ ret = NoCall
  /\ pc = "start"
  /\ fileExists = TRUE /\ lines = <<>> /\ pos = 0 /\ ips = <<>> /\ log = <<>>
  /\ idx = 0 /\ results = <<>> /\ output = NoOutput /\ calls = <<>> /\ trail = <<>>

CallFormatIp ==
  /\ variant = "format" /\ pc = "start"
  /\ ret' = format_ip(arg)
  /\ pc' = IF ret'.tag = "raise" THEN "raised" ELSE "returned"
  /\ UNCHANGED <<variant, fileExists, lines, pos, ips, log, idx, results, output,
                 calls, trail, arg>>

NextFormat == CallFormatIp

SpecFormat == InitFormat /\ [][NextFormat]_vars

-----------------------------------------------------------------------------
(* extract_and_format_ips, line by line *)

InitExtract ==
  /\ variant = "extract"
  /\ fileExists \in BOOLEAN
  /\ lines \in SeqsUpTo(LineSamples, MaxLines)
  /\ pc = "start" /\ pos = 0 /\ ips = <<>> /\ log = <<>>
  /\ idx = 0 /\ results = <<>> /\ output = NoOutput /\ calls = <<>> /\ trail = <<>>
  /\ arg = JNull /\ ret = NoCall

\* lines 39-41 and 56-57: open the file
ExtractOpen ==
  /\ variant = "extract" /\ pc = "start"
  /\ IF fileExists
       THEN pc' = "lines" /\ log' = log
       ELSE pc' = "returned" /\ log' = Append(log, "File not found")
  /\ UNCHANGED <<variant, fileExists, lines, pos, ips, idx, results, output, calls,
                 trail, arg, ret>>

\* lines 42-55: one iteration of the for loop
ExtractLine ==
  /\ variant = "extract" /\ pc = "lines" /\ pos < Len(lines)
  /\ LET st == ProcessLine(LoopState(ips, log, "none"), lines[pos + 1])
     IN /\ ips' = st.ips
        /\ log' = st.log
        /\ pc' = IF st.exc = "none" THEN "lines" ELSE "raised"
  /\ pos' = pos + 1
  /\ UNCHANGED <<variant, fileExists, lines, idx, results, output, calls, trail, arg, ret>>

\* line 58: the file is exhausted
ExtractReturn ==
  /\ variant = "extract" /\ pc = "lines" /\ pos = Len(lines)
  /\ pc' = "returned"
  /\ UNCHANGED <<variant, fileExists, lines, pos, ips, log, idx, results, output,
                 calls, trail, arg, ret>>

NextExtract == ExtractOpen \/ ExtractLine \/ ExtractReturn

SpecExtract == InitExtract /\ [][NextExtract]_vars

-----------------------------------------------------------------------------
(* reverse_dns_lookup *)

Hostnames == {<<"h", "1">>, <<"h", "2">>}
ExtHostnames == {<<"h", "1">>}

\* what socket.getfqdn answers: a name, socket.herror, or another exception
NameAnswer(n) == [k |-> "name", name |-> n]
HErrorAnswer == [k |-> "herror", name |-> <<>>]
ErrorAnswer == [k |-> "error", name |-> <<>>]

ResolverAnswers(ip, names) ==
  {HErrorAnswer, ErrorAnswer, NameAnswer(ip)} \cup {NameAnswer(h) : h \in names}

\* what requests.get answers: a response, or a RequestException (no connection, timeout)
HttpResponse(status, text) == [k |-> "resp", status |-> status, text |-> text]
HttpFailure == [k |-> "exc", status |-> 0, text |-> <<>>]
NoResponse == [k |-> "none", status |-> 0, text |-> <<>>]

\* a plausible slip: the test of line 73 missing
ReverseDnsLookupNoEqualityTest(ip_address, ans) ==
  IF ans.k = "name" THEN Returned(ans.name) ELSE ReturnedNone

\* the outcome of reverse_dns_lookup(ip_address) when the resolver answers ans
reverse_dns_lookup(ip_address, ans) ==
  IF ans.k = "name"
    THEN IF ans.name # ip_address THEN Returned(ans.name) ELSE ReturnedNone
    ELSE ReturnedNone

\* what main.py's reverse_dns_lookup prints (lines 71, 74, 77, 80, 83)
LookupLogBasic(ip_address, ans) ==
  <<"Performing reverse DNS">> \o
    (IF ans.k = "name"
       THEN IF ans.name # ip_address THEN <<"Hostname found">> ELSE <<"No hostname found">>
     ELSE IF ans.k = "herror" THEN <<"No domain name found">>
     ELSE <<"Error during reverse DNS lookup">>)

\* what old-main.py's reverse_dns_lookup prints (lines 89, 92)
LookupLogExtended(ip_address, ans) ==
  IF ans.k = "herror" THEN <<"No domain name found">>
  ELSE IF ans.k = "error" THEN <<"Error during reverse DNS lookup">>
  ELSE <<>>

-----------------------------------------------------------------------------
(* main, both variants: the call of extract_and_format_ips *)

\* 3232235777 = 192.168.1.1, 167772169 = 10.0.0.9
MainLineSamples ==
  {BadLine, ObjLine(JInt(FALSE, <<192, 168, 1, 1>>)), ObjLine(JInt(FALSE, <<10, 0, 0, 9>>)),
   ObjLine(JInt(FALSE, <<1, 0, 0, 0, 0>>))}

\* main.py lines 91-93, old-main.py lines 137-139
MainExtract ==
  /\ variant \in {"basic", "extended"} /\ pc = "start"
  /\ LET st == extract_and_format_ips(fileExists, lines)
     IN /\ ips' = st.ips
        /\ log' = log \o st.log
        /\ pc' = IF st.exc = "none" THEN "loop" ELSE "aborted"
  /\ UNCHANGED <<variant, fileExists, lines, pos, idx, results, output, calls, trail,
                 arg, ret>>

-----------------------------------------------------------------------------
(* main.py *)

BasicRecord(d) == [domain |-> d]

InitBasic ==
  /\ variant = "basic"
  /\ fileExists \in BOOLEAN
  /\ lines \in SeqsUpTo(MainLineSamples, MaxMainLines)
  /\ pc = "start" /\ pos = 0 /\ ips = <<>> /\ log = <<>>
  /\ idx = 0 /\ results = <<>> /\ output = NoOutput /\ calls = <<>> /\ trail = <<>>
  /\ arg = JNull /\ ret = NoCall

\* a plausible slip: the record inserted at the head of results
BasicLoopIterPrepends ==
  /\ variant = "basic" /\ pc = "loop" /\ idx < Len(ips)
  /\ \E ans \in ResolverAnswers(ips[idx + 1], Hostnames) :
       LET ip == ips[idx + 1]
           domain == reverse_dns_lookup(ip, ans)
       IN /\ calls' = Append(calls, ip)
          /\ trail' = Append(trail, [ip |-> ip, ans |-> ans, domain |-> domain,
                                     resp |-> NoResponse, added |-> Truthy(domain)])
          /\ results' = IF Truthy(domain) THEN <<BasicRecord(domain.val)>> \o results
                        ELSE results
          /\ log' = log
  /\ idx' = idx + 1
  /\ UNCHANGED <<variant, fileExists, lines, pc, pos, ips, output, arg, ret>>

\* lines 95-100: one iteration of the loop over ips
BasicLoopIter ==
  /\ variant = "basic" /\ pc = "loop" /\ idx < Len(ips)
  /\ \E ans \in ResolverAnswers(ips[idx + 1], Hostnames) :
       LET ip == ips[idx + 1]
           domain == reverse_dns_lookup(ip, ans)
       IN /\ calls' = Append(calls, ip)
          /\ trail' = Append(trail, [ip |-> ip, ans |-> ans, domain |-> domain,
                                     resp |-> NoResponse, added |-> Truthy(domain)])
          /\ IF Truthy(domain)
               THEN /\ results' = Append(results, BasicRecord(domain.val))
                    /\ log' = log \o LookupLogBasic(ip, ans)
               ELSE /\ results' = results
                    /\ log' = log \o LookupLogBasic(ip, ans) \o <<"No domain found for IP">>
  /\ idx' = idx + 1
  /\ UNCHANGED <<variant, fileExists, lines, pc, pos, ips, output, arg, ret>>

\* lines 103-106: write output.json
BasicWrite ==
  /\ variant = "basic" /\ pc = "loop" /\ idx = Len(ips)
  /\ output' = [written |-> TRUE, doc |-> results]
  /\ log' = log \o <<"Sites found", "Results saved to output.json">>
  /\ pc' = "done"
  /\ UNCHANGED <<variant, fileExists, lines, pos, ips, idx, results, calls, trail,
                 arg, ret>>

NextBasic == MainExtract \/ BasicLoopIter \/ BasicWrite

SpecBasic == InitBasic /\ [][NextBasic]_vars

-----------------------------------------------------------------------------
(* fetch_readme_content *)

StableTag == "Stable tag: "
VersionChars == {Digits[i] : i \in 1..10} \cup {"."}
Whitespace == {" ", "\n"}

\* response.raise_for_status() raises HTTPError (line 110: 4xx or 5xx)
RaisesForStatus(resp) == resp.status >= 400 /\ resp.status < 600

\* re.search(r"Stable tag: ([\d.]+)", content): where the leftmost match starts, 0 for none
MatchStart(content) ==
  LET starts == {i \in 1..(Len(content) - 1) :
                   content[i] = StableTag /\ content[i + 1] \in VersionChars}
  IN IF starts = {} THEN 0 ELSE CHOOSE i \in starts : \A j \in starts : i <= j

RECURSIVE RunOf(_, _)
\* the longest prefix of s made of characters of S
RunOf(s, S) ==
  IF Len(s) = 0 \/ Head(s) \notin S THEN <<>> ELSE <<Head(s)>> \o RunOf(Tail(s), S)

\* version_match.group(1)
Group1(content) ==
  RunOf(SubSeq(content, MatchStart(content) + 1, Len(content)), VersionChars)

RECURSIVE strip(_)
strip(s) ==
  IF Len(s) > 0 /\ Head(s) \in Whitespace THEN strip(Tail(s))
  ELSE IF Len(s) > 0 /\ s[Len(s)] \in Whitespace THEN strip(SubSeq(s, 1, Len(s) - 1))
  ELSE s

ReadmeUrl(domain) ==
  <<"http://">> \o domain \o <<"/wp-content/plugins/embedpress/readme.txt">>

ProbeResult(u, v, l) == [url |-> u, version |-> v, log |-> l]
ProbeNone(l) == ProbeResult(ReturnedNone, ReturnedNone, l)

\* a plausible slip: raise_for_status left out
FetchReadmeContentNoStatusCheck(domain, resp) ==
  IF resp.k = "exc" THEN ProbeNone(<<"Request failed">>)
  ELSE IF MatchStart(resp.text) # 0
    THEN ProbeResult(Returned(ReadmeUrl(domain)), Returned(strip(Group1(resp.text))), <<>>)
    ELSE ProbeNone(<<"Version not found in readme.txt">>)

\* the pair fetch_readme_content(domain) returns when requests.get answers resp
fetch_readme_content(domain, resp) ==
  LET url == ReadmeUrl(domain)
  IN IF resp.k = "exc" \/ RaisesForStatus(resp)
       THEN ProbeNone(<<"Request failed">>)
     ELSE IF MatchStart(resp.text) # 0
       THEN ProbeResult(Returned(url), Returned(strip(Group1(resp.text))), <<>>)
     ELSE ProbeNone(<<"Version not found in readme.txt">>)

-----------------------------------------------------------------------------
(* version_key and results.sort *)

IntPart(n) == [t |-> "int", n |-> n, s |-> <<>>]
StrPart(s) == [t |-> "str", n |-> 0, s |-> s]

\* a plausible slip: the parts compared as strings
VersionKeyAsStrings(item) ==
  LET parts == Split(item.version, ".")
  IN [i \in 1..Len(parts) |-> StrPart(parts[i])]

\* lines 128-129
version_key(item) ==
  LET parts == Split(item.version, ".")
  IN [i \in 1..Len(parts) |->
        IF isdigit(parts[i]) THEN IntPart(DecimalValue(parts[i])) ELSE StrPart(parts[i])]

RECURSIVE StrLess(_, _)
\* a < b on str: lexicographic
StrLess(a, b) ==
  IF Len(b) = 0 THEN FALSE
  ELSE IF Len(a) = 0 THEN TRUE
  ELSE IF Head(a) # Head(b)
    THEN (CHOOSE i \in 1..10 : Digits[i] = Head(a)) < (CHOOSE i \in 1..10 : Digits[i] = Head(b))
  ELSE StrLess(Tail(a), Tail(b))

\* a < b on the parts of a key: "T", "F", or "E" (TypeError: '<' between int and str)
PartLess(a, b) ==
  IF a.t # b.t THEN "E"
  ELSE IF a.t = "int" THEN (IF a.n < b.n THEN "T" ELSE "F")
  ELSE IF StrLess(a.s, b.s) THEN "T" ELSE "F"

RECURSIVE ListLess(_, _)
\* a < b on lists: the first parts that differ decide, else the lengths
ListLess(a, b) ==
  IF Len(a) = 0 \/ Len(b) = 0 THEN (IF Len(a) < Len(b) THEN "T" ELSE "F")
  ELSE IF Head(a) = Head(b) THEN ListLess(Tail(a), Tail(b))
  ELSE PartLess(Head(a), Head(b))

Reverse(xs) == [i \in 1..Len(xs) |-> xs[Len(xs) + 1 - i]]

RECURSIVE RunEnd(_, _, _)
\* count_run: xs[1..i-1] is a run (descending or not); its length, or 0 on TypeError
RunEnd(xs, i, descending) ==
  IF i > Len(xs) THEN Len(xs)
  ELSE LET c == ListLess(xs[i].key, xs[i - 1].key)
       IN IF c = "E" THEN 0
          ELSE IF (c = "T") = descending THEN RunEnd(xs, i + 1, descending)
          ELSE i - 1

RECURSIVE BinarySearch(_, _, _, _)
\* binarysort's search of where pivot goes in the sorted xs[l..r-1]; 0 on TypeError
BinarySearch(xs, pivot, l, r) ==
  IF l >= r THEN l
  ELSE LET p == l + ((r - l) \div 2)
           c == ListLess(pivot.key, xs[p].key)
       IN IF c = "E" THEN 0
          ELSE IF c = "T" THEN BinarySearch(xs, pivot, l, p)
          ELSE BinarySearch(xs, pivot, p + 1, r)

RECURSIVE BinarySort(_, _)
\* binarysort: xs[1..start-1] is sorted; insert xs[start..]
BinarySort(xs, start) ==
  IF start > Len(xs) THEN [err |-> FALSE, list |-> xs]
  ELSE LET at == BinarySearch(xs, xs[start], 1, start)
       IN IF at = 0 THEN [err |-> TRUE, list |-> xs]
          ELSE BinarySort(SubSeq(xs, 1, at - 1) \o <<xs[start]>> \o SubSeq(xs, at, start - 1)
                            \o SubSeq(xs, start + 1, Len(xs)), start + 1)

\* list.sort on fewer than 64 keyed items: one run, then binary insertion
SortKeyed(xs) ==
  IF Len(xs) < 2 THEN [err |-> FALSE, list |-> xs]
  ELSE LET first == ListLess(xs[2].key, xs[1].key)
           n == IF first = "E" THEN 0 ELSE RunEnd(xs, 3, first = "T")
           run == SubSeq(xs, 1, n)
           rest == SubSeq(xs, n + 1, Len(xs))
       IN IF n = 0 THEN [err |-> TRUE, list |-> xs]
          ELSE BinarySort((IF first = "T" THEN Reverse(run) ELSE run) \o rest, n + 1)

\* results.sort(key=version_key), line 153: err when a comparison raises TypeError
SortResults(rs) ==
  LET sorted == SortKeyed([i \in 1..Len(rs) |-> [key |-> version_key(rs[i]), item |-> rs[i]]])
  IN [err |-> sorted.err, list |-> [i \in 1..Len(sorted.list) |-> sorted.list[i].item]]

-----------------------------------------------------------------------------
(* old-main.py *)

VersionSamples ==
  {<<"1", ".", "9">>, <<"1", ".", "1", "0">>, <<"2", ".", "0">>, <<"1", ".", "0", "9">>,
   <<"1", ".">>}

BodySamples ==
  {<<"x">>, <<StableTag, "x">>}
    \cup {<<"x", StableTag>> \o v \o <<"\n", "x">> : v \in VersionSamples}

HttpAnswers ==
  {HttpFailure, HttpResponse(404, <<StableTag, "2", ".", "0">>),
   HttpResponse(304, <<StableTag, "2", ".", "0">>)}
    \cup {HttpResponse(200, b) : b \in BodySamples}

ExtLineSamples == {BadLine, ObjLine(JInt(FALSE, <<192, 168, 1, 1>>))}

ExtRecord(d, u, v) == [domain |-> d, url |-> u, version |-> v]

InitExtended ==
  /\ variant = "extended"
  /\ fileExists \in BOOLEAN
  /\ lines \in SeqsUpTo(ExtLineSamples, MaxExtLines)
  /\ pc = "start" /\ pos = 0 /\ ips = <<>> /\ log = <<>>
  /\ idx = 0 /\ results = <<>> /\ output = NoOutput /\ calls = <<>> /\ trail = <<>>
  /\ arg = JNull /\ ret = NoCall

\* lines 141-150: one iteration of the loop over ips (time.sleep changes no state)
ExtLoopIter ==
  /\ variant = "extended" /\ pc = "loop" /\ idx < Len(ips)
  /\ \E ans \in ResolverAnswers(ips[idx + 1], ExtHostnames), resp \in HttpAnswers :
       LET ip == ips[idx + 1]
           domain == reverse_dns_lookup(ip, ans)
           probe == fetch_readme_content(domain.val, resp)
           appends == Truthy(domain) /\ Truthy(probe.url) /\ Truthy(probe.version)
       IN /\ calls' = Append(calls, ip)
          /\ trail' = Append(trail, [ip |-> ip, ans |-> ans, domain |-> domain,
                                     resp |-> IF Truthy(domain) THEN resp ELSE NoResponse,
                                     added |-> appends])
          /\ results' =
               IF appends
                 THEN Append(results, ExtRecord(domain.val, probe.url.val, probe.version.val))
                 ELSE results
          /\ log' = IF Truthy(domain)
                      THEN log \o LookupLogExtended(ip, ans) \o probe.log
                      ELSE log \o LookupLogExtended(ip, ans) \o <<"No domain found for IP">>
  /\ idx' = idx + 1
  /\ UNCHANGED <<variant, fileExists, lines, pc, pos, ips, output, arg, ret>>

\* lines 153-159: sort results, then write output.json; a TypeError raised by
\* the sort leaves main before the file is opened
ExtSortWrite ==
  /\ variant = "extended" /\ pc = "loop" /\ idx = Len(ips)
  /\ LET sorted == SortResults(results)
     IN IF sorted.err
          THEN /\ pc' = "aborted"
               /\ UNCHANGED <<results, output, log>>
          ELSE /\ results' = sorted.list
               /\ output' = [written |-> TRUE, doc |-> sorted.list]
               /\ log' = log \o <<"Sites found", "Results saved to output.json">>
               /\ pc' = "done"
  /\ UNCHANGED <<variant, fileExists, lines, pos, ips, idx, calls, trail, arg, ret>>

NextExtended == MainExtract \/ ExtLoopIter \/ ExtSortWrite

SpecExtended == InitExtended /\ [][NextExtended]_vars

-----------------------------------------------------------------------------
(* Properties of format_ip, under SpecFormat *)

\* v is an int in [0, 4294967295]: non-negative, at most four base-256 digits
InIPv4Range(v) == v.k = "int" /\ ~v.neg /\ Len(v.mag) <= 4

\* s reads 'a.b.c.d' with a, b, c, d decimal numbers in [0, 255]
IsDottedQuad(s) ==
  LET parts == Split(s, ".")
  IN /\ Len(parts) = 4
     /\ \A i \in 1..4 : isdigit(parts[i]) /\ DecimalValue(parts[i]) \in 0..255

\* a*2^24 + b*2^16 + c*2^8 + d for the dotted quad s, as a Python int
QuadValue(s) ==
  LET parts == Split(s, ".")
  IN PyInt(FALSE, [i \in 1..4 |-> DecimalValue(parts[i])])

\* C2: for every integer v in [0, 4294967295], format_ip(v) returns a string
\* 'a.b.c.d' with each of a, b, c, d in [0, 255], and a*2^24 + b*2^16 + c*2^8 + d
\* equals v.
C2_FormatRoundTrip ==
  (pc # "start" /\ InIPv4Range(arg)) =>
    /\ ret.tag = "return" /\ ~ret.none
    /\ IsDottedQuad(ret.val)
    /\ QuadValue(ret.val) = PyInt(arg.neg, arg.mag)

\* format_ip(3221228041) returned "192.0.10.9"
C2_Witness ==
  /\ pc = "returned"
  /\ arg = JInt(FALSE, <<192, 0, 10, 9>>)
  /\ ret = Returned(<<"1", "9", "2", ".", "0", ".", "1", "0", ".", "9">>)

\* v is an int outside [0, 4294967295]
OutOfIPv4Range(v) == v.k = "int" /\ (v.neg \/ Len(v.mag) > 4)

\* v cannot be coerced to an integer: a non-numeric string, null, a list, an object
NonNumeric(v) ==
  \/ v.k \in {"null", "list", "dict"}
  \/ v.k = "str" /\ IntOfStr(v.s).tag = "raise"

\* C3: for every integer v outside [0, 4294967295] and for every non-numeric
\* input, format_ip returns None; it does not raise.
C3_InvalidYieldsNone ==
  (pc # "start" /\ (OutOfIPv4Range(arg) \/ NonNumeric(arg))) => ret = ReturnedNone

-----------------------------------------------------------------------------
(* Properties of extract_and_format_ips, under SpecExtract *)

RECURSIVE ValidIpsOf(_)
\* the formatted ip of every well-formed line that carries a valid ip, in order
ValidIpsOf(ls) ==
  IF Len(ls) = 0 THEN <<>>
  ELSE LET l == ls[Len(ls)]
           r == format_ip(l.ip)
       IN ValidIpsOf(SubSeq(ls, 1, Len(ls) - 1)) \o
            (IF l.k = "obj" /\ l.hasIp /\ r.tag = "return" /\ ~r.none THEN <<r.val>> ELSE <<>>)

Count(xs, x) == Cardinality({i \in 1..Len(xs) : xs[i] = x})

\* C4: a line that fails to parse as JSON is dropped and reported without
\* stopping the loop: every well-formed line is still processed (each one
\* carrying a valid ip contributes its entry, in order) and no exception
\* escapes the function.
C4_BadLinesDoNotStopLoop ==
  /\ pc # "raised"
  /\ (fileExists /\ pc \in {"lines", "returned"}) =>
       /\ ips = ValidIpsOf(SubSeq(lines, 1, pos))
       /\ Count(log, "Skipping invalid JSON line") = Count(SubSeq(lines, 1, pos), BadLine)
  /\ (fileExists /\ pc = "returned") => pos = Len(lines)

\* a malformed line between two lines with valid ips: both ips were extracted
C4_Witness ==
  /\ pc = "returned"
  /\ Len(lines) = 3
  /\ lines[1] = ObjLine(JInt(FALSE, <<192, 168, 1, 1>>))
  /\ lines[2] = BadLine
  /\ lines[3] = ObjLine(JStr(<<"7">>))
  /\ ips = <<<<"1", "9", "2", ".", "1", "6", "8", ".", "1", ".", "1">>,
             <<"0", ".", "0", ".", "0", ".", "7">>>>
  /\ log = <<"Skipping invalid JSON line">>

\* the value of the key ip is out of range or otherwise invalid
InvalidIpValue(v) == OutOfIPv4Range(v) \/ NonNumeric(v)

\* C5: a record without the key ip adds no entry and emits no report; a record
\* whose ip is out of range or otherwise invalid adds no entry and emits
\* exactly one report; in both cases the loop goes on to the next record.
C5_MissingSilentInvalidReported ==
  [][(pc = "lines" /\ pos' = pos + 1) =>
       LET line == lines[pos + 1]
       IN /\ (line.k = "obj" /\ ~line.hasIp) =>
               (ips' = ips /\ log' = log /\ pc' = "lines")
          /\ (line.k = "obj" /\ line.hasIp /\ InvalidIpValue(line.ip)) =>
               (ips' = ips /\ Len(log') = Len(log) + 1 /\ SubSeq(log', 1, Len(log)) = log
                  /\ pc' = "lines")]_vars

\* a record without ip, one with ip 4294967296, then one with the valid ip 0
C5_Witness ==
  /\ pc = "returned"
  /\ lines = <<ObjNoIp, ObjLine(JInt(FALSE, <<1, 0, 0, 0, 0>>)),
               ObjLine(JInt(FALSE, <<>>))>>
  /\ ips = <<<<"0", ".", "0", ".", "0", ".", "0">>>>
  /\ log = <<"Invalid IP value">>

-----------------------------------------------------------------------------
(* Properties of main.py, under SpecBasic *)

\* C6: reverse_dns_lookup never raises: it returns None when the resolver
\* raises or returns a name identical to the queried ip, and otherwise
\* returns exactly the name the resolver returned.
C6_LookupNormalized ==
  \A i \in 1..Len(trail) :
    LET e == trail[i]
    IN /\ e.domain.tag = "return"
       /\ (e.ans.k \in {"herror", "error"}) => e.domain.none
       /\ (e.ans.k = "name" /\ e.ans.name = e.ip) => e.domain.none
       /\ (e.ans.k = "name" /\ e.ans.name # e.ip) =>
            (~e.domain.none /\ e.domain.val = e.ans.name)

\* one run in which the resolver raised, echoed the ip, and returned a name
C6_Witness ==
  /\ Len(trail) = 3
  /\ trail[1].ans.k = "herror" /\ trail[1].domain.none
  /\ trail[2].ans.k = "name" /\ trail[2].ans.name = trail[2].ip /\ trail[2].domain.none
  /\ trail[3].ans.k = "name" /\ trail[3].domain = Returned(<<"h", "2">>)

\* C8: when the input file is absent, extract_and_format_ips returns an empty
\* list and emits a diagnostic, main performs no resolution, writes an empty
\* JSON array and completes.
C8_AbsentFileEmptyReport ==
  ~fileExists =>
    /\ pc \in {"start", "loop", "done"}
    /\ calls = <<>> /\ trail = <<>>
    /\ pc # "start" => (ips = <<>> /\ Len(log) >= 1 /\ log[1] = "File not found")
    /\ pc = "loop" => ENABLED BasicWrite
    /\ pc = "done" <=> output.written
    /\ output.doc = <<>>

\* the run without input.json has written [] and ended
C8_Witness ==
  /\ ~fileExists
  /\ pc = "done"
  /\ output = [written |-> TRUE, doc |-> <<>>]
  /\ log = <<"File not found", "Sites found", "Results saved to output.json">>

RECURSIVE ResolvedNames(_)
\* the names of the iterations whose resolver answer was a name other than the ip
ResolvedNames(t) ==
  IF Len(t) = 0 THEN <<>>
  ELSE LET e == t[Len(t)]
       IN ResolvedNames(SubSeq(t, 1, Len(t) - 1)) \o
            (IF e.ans.k = "name" /\ e.ans.name # e.ip THEN <<[domain |-> e.ans.name]>>
             ELSE <<>>)

\* C9: the i-th resolver call is for the i-th valid ip of the source,
\* duplicates included, and the output array is the hostnames of the ips that
\* resolved, in that order.
C9_SourceOrderKept ==
  /\ (pc # "start" /\ fileExists) => ips = ValidIpsOf(lines)
  /\ calls = SubSeq(ips, 1, idx)
  /\ Len(trail) = idx
  /\ \A i \in 1..Len(trail) : trail[i].ip = ips[i]
  /\ results = ResolvedNames(trail)
  /\ output.written => (idx = Len(ips) /\ output.doc = ResolvedNames(trail))

\* the same ip twice around another one; the first and the last resolved, to
\* different names
C9_Witness ==
  /\ pc = "done"
  /\ Len(ips) = 3 /\ ips[1] = ips[3] /\ ips[1] # ips[2]
  /\ calls = ips
  /\ trail[2].ans.k = "error"
  /\ output.doc = <<[domain |-> <<"h", "2">>], [domain |-> <<"h", "1">>]>>

-----------------------------------------------------------------------------
(* Properties of old-main.py, under SpecExtended *)

\* C1: a run of main whose input file exists always reaches the write of
\* output.json: nothing between the start and the write ends the run.
C1_RunReachesWrite == fileExists => pc # "aborted"

RECURSIVE Collected(_)
\* the records the loop appended, in the order of the iterations
Collected(t) ==
  IF Len(t) = 0 THEN <<>>
  ELSE LET e == t[Len(t)]
       IN Collected(SubSeq(t, 1, Len(t) - 1)) \o
            (IF e.added
               THEN <<ExtRecord(e.domain.val, ReadmeUrl(e.domain.val),
                                strip(Group1(e.resp.text)))>>
               ELSE <<>>)

\* the parts of a version: a number for an all-digit part, -1 for any other
PartsOf(v) ==
  LET parts == Split(v, ".")
  IN [i \in 1..Len(parts) |-> IF isdigit(parts[i]) THEN DecimalValue(parts[i]) ELSE -1]

RECURSIVE NumericallyBefore(_, _)
\* a sorts strictly before b: decided by the first parts that differ, both
\* numbers, or by a being a proper prefix of b
NumericallyBefore(a, b) ==
  IF Len(a) = 0 THEN Len(b) > 0
  ELSE IF Len(b) = 0 THEN FALSE
  ELSE IF Head(a) = Head(b) THEN NumericallyBefore(Tail(a), Tail(b))
  ELSE Head(a) >= 0 /\ Head(b) >= 0 /\ Head(a) < Head(b)

WithKey(rs, key) ==
  LET HasKey(r) == PartsOf(r.version) = key
  IN SelectSeq(rs, HasKey)

\* C7: the written report is the collected records sorted ascending by
\* version, all-digit parts compared as integers; records with equal keys
\* keep their input order.
C7_ReportSortedStable ==
  output.written =>
    /\ Len(output.doc) = Len(Collected(trail))
    /\ \A i, j \in 1..Len(output.doc) :
         i < j => ~NumericallyBefore(PartsOf(output.doc[j].version),
                                     PartsOf(output.doc[i].version))
    /\ \A i \in 1..Len(output.doc) :
         WithKey(output.doc, PartsOf(output.doc[i].version))
           = WithKey(Collected(trail), PartsOf(output.doc[i].version))

Versions(rs) == [i \in 1..Len(rs) |-> rs[i].version]

\* collected 1.10, 1.09, 1.9; written 1.09, 1.9, 1.10
C7_Witness ==
  /\ pc = "done"
  /\ Versions(Collected(trail)) =
       <<<<"1", ".", "1", "0">>, <<"1", ".", "0", "9">>, <<"1", ".", "9">>>>
  /\ Versions(output.doc) =
       <<<<"1", ".", "0", "9">>, <<"1", ".", "9">>, <<"1", ".", "1", "0">>>>

\* the resolver answered a name other than the ip
Resolved(e) == e.ans.k = "name" /\ e.ans.name # e.ip

\* the body holds 'Stable tag: ' followed by a digit or a dot
HasStableTag(text) ==
  \E i \in 1..(Len(text) - 1) : text[i] = StableTag /\ text[i + 1] \in VersionChars

WellFormedRecord(r) ==
  /\ DOMAIN r = {"domain", "url", "version"}
  /\ r.url = <<"http://">> \o r.domain \o <<"/wp-content/plugins/embedpress/readme.txt">>
  /\ Len(r.version) > 0
  /\ \A i \in 1..Len(r.version) : r.version[i] \in VersionChars

\* C10 as claimed: a record is contributed iff the ip resolved and the probe
\* succeeded, where the probe fails on a transport failure, on any non-success
\* (non-2xx) status, or when 'Stable tag: ' does not match.
C10_NonSuccessStatusDrops ==
  \A i \in 1..Len(trail) :
    trail[i].added <=>
      /\ Resolved(trail[i])
      /\ trail[i].resp.k = "resp"
      /\ trail[i].resp.status \in 200..299
      /\ HasStableTag(trail[i].resp.text)

\* C10 as amended: the probe fails on a transport failure, on a 4xx or 5xx
\* status, or when 'Stable tag: ' does not match; a failure drops only that
\* record and the loop goes on; every record has the three keys, the readme
\* url of its domain, and a non-empty version of digits and dots.
C10_ProbeFailureDropsRecord ==
  /\ \A i \in 1..Len(trail) :
       trail[i].added <=>
         /\ Resolved(trail[i])
         /\ trail[i].resp.k = "resp"
         /\ ~(trail[i].resp.status \in 400..599)
         /\ HasStableTag(trail[i].resp.text)
  /\ results \in {Collected(trail), output.doc}
  /\ \A i \in 1..Len(results) : WellFormedRecord(results[i])
  /\ \A i \in 1..Len(output.doc) : WellFormedRecord(output.doc[i])
  /\ pc = "aborted" => idx = Len(ips)
  /\ (pc = "loop" /\ idx < Len(ips)) => ENABLED ExtLoopIter

\* a 404, a failed connection and a readme without the tag, then a hit
C10_Witness ==
  /\ pc = "done"
  /\ Len(trail) = 3
  /\ trail[1].resp.k = "resp" /\ trail[1].resp.status = 404 /\ ~trail[1].added
  /\ trail[2].resp = HttpFailure /\ ~trail[2].added
  /\ trail[3].resp.status = 200 /\ trail[3].added
  /\ output.doc = <<ExtRecord(<<"h", "1">>,
                              <<"http://", "h", "1", "/wp-content/plugins/embedpress/readme.txt">>,
                              <<"2", ".", "0">>)>>

====
